---- MODULE Spec2Model ----
(***************************************************************************)
(* Mars rover mission dashboard (client).                                  *)
(*                                                                         *)
(* The main specification, Spec, models the latest revision of the client  *)
(* (DataCache, App and AdvancedMissionTimeline with the fixed 0..1000      *)
(* range).  One action is one event handler, timer callback or promise     *)
(* continuation, followed by the render it causes: state updates made in   *)
(* one callback are applied together, and the timeline component exists    *)
(* exactly while App renders the dashboard (not loading, no error, a       *)
(* payload held).  When App stops rendering the dashboard the timeline is  *)
(* unmounted: its effect cleanups run and its state is discarded.          *)
(*                                                                         *)
(* SpecCalc evaluates the pure computations of the client (seek, progress  *)
(* percentage, event markers, navigation buttons, map projection) of both  *)
(* revisions on bounded inputs.  SpecLive follows the live-refresh timer   *)
(* and the answers of the service through three requests; SpecZoom follows *)
(* the zoom controls of the map across sol changes; SpecDown runs the      *)
(* mouse-down handler of the timeline statement by statement; SpecPlay     *)
(* follows auto-play with the filter and speed selectors; SpecNotify       *)
(* follows the notifications added by the live interval.  Discoveries are  *)
(* drawn only in SpecNotify: no other code reads the notification list.    *)
(***************************************************************************)
EXTENDS Integers, Sequences, FiniteSets, TLC

VARIABLES
    \* ---- App state (useState of App) and DataCache
    roverData,      \* payload held, NoData for null
    loading,        \* loading flag
    error,          \* NoError for null, otherwise the message
    selectedSol,    \* Null or a sol
    isLiveMode,     \* live toggle
    cache,          \* DataCache.cache : key -> [data, timestamp]
    mapZoomLevel,   \* zoom level of the map, a ratio [n, d]
    mapZoomMemory,  \* sol -> zoom level saved when the sol was left
    \* ---- environment
    now,            \* Date.now()
    inflight,       \* requests awaiting the response of axios.get
    nextId,         \* number of requests issued so far
    appMounted,     \* the mount effects of App have run
    liveSince,      \* time the pending live interval was (re)armed, Null if none
    liveIntervals,  \* number of setInterval timers of the live-mode effect pending
    requestCap,     \* model bound: requests a behaviour may issue (never changes)
    timeCap,        \* model bound: the clock stops here (never changes)
    discoveryCap,   \* model bound: discoveries a behaviour may add (never changes)
    \* ---- notifications of App
    notifications,  \* the list shown, oldest first
    discoveries,    \* history: number of discoveries added so far
    \* ---- AdvancedMissionTimeline state
    isDragging,
    dragListeners,  \* number of mousemove/mouseup listener pairs on document
    isAutoPlay,
    autoPlayRef,    \* TRUE iff autoPlayRef.current holds a pending timer
    autoPlayTimers, \* number of setTimeout timers of auto-play pending
    filterType,
    playbackSpeed,  \* speed selected, in halves (2 for 1x)
    timerDelay,     \* delay in ms of the pending auto-play timer, 0 if none
    eventsToPlay,   \* closure of startAutoPlay: sols of the events to play
    capturedSpeed,  \* closure of startAutoPlay: playbackSpeed
    currentIndex,   \* closure of startAutoPlay
    capturedSol,    \* selectedSol captured by the onSolChange of the closure
    capturedZoom,   \* mapZoomLevel and mapZoomMemory captured by that onSolChange
    \* ---- history (ghost) variables
    last,           \* the last operation and what it did
    run,            \* the current / most recent auto-play run
    setAt,          \* key -> time of the last DataCache.set
    pinned,         \* key -> payload first applied for a selection of the key
    leftZoom,       \* sol -> zoom level when the user last left the sol
    \* ---- pure computations (SpecCalc)
    calc

appVars  == <<roverData, loading, error, selectedSol, isLiveMode, cache,
              mapZoomLevel, mapZoomMemory>>
envVars  == <<now, inflight, nextId, appMounted, liveSince, liveIntervals>>
tlVars   == <<isDragging, dragListeners, isAutoPlay, autoPlayRef, autoPlayTimers, filterType,
              playbackSpeed, timerDelay, eventsToPlay, capturedSpeed,
              currentIndex, capturedSol, capturedZoom>>
ghostVars == <<last, run, setAt, pinned, leftZoom>>
capVars  == <<requestCap, timeCap, discoveryCap>>
noteVars == <<notifications, discoveries>>
vars == <<appVars, envVars, tlVars, ghostVars, calc, capVars, noteVars>>

----------------------------------------------------------------------------
(* Bounds of the model *)
TimeStep    == 300000   \* granularity of the clock, in ms
MaxTime     == 600000   \* the clock stops here
MaxRequests == 2        \* network requests issued in one behaviour of Spec
MaxLiveRequests == 3    \* the same, for SpecLive, SpecZoom, SpecDown, SpecPlay
TrackWidth  == 2        \* rect.width of the timeline track, in px
MaxClick    == 2        \* only the first MaxClick markers shown are clicked
MaxListLen  == 3        \* longest sols list of the list revision
MaxCalcX    == 6        \* pointer offsets of SpecCalc range over -2..MaxCalcX
MaxCoord    == 1        \* route coordinates range over 0..MaxCoord (in 0.001 deg)
MaxRoute    == 2        \* longest route of a payload
MaxDiscoveries == 4     \* discoveries added in a behaviour of SpecNotify
MaxNotifyRequests == 5  \* requests issued in a behaviour of SpecNotify
MaxNotifyTime == 1200000 \* the clock of SpecNotify stops here
MaxZoomPresses == 10    \* zoom button presses in a row (SpecCalc)
MaxZoomSteps == 2       \* zoom levels used: within MaxZoomSteps presses of 100%

(* Program constants *)
UPDATE_INTERVAL == 300000
maxSol          == 1000
LatestSol       == 1000

Null     == -1                       \* JavaScript null (sols are >= 0)
NoError  == "null"
LinkLost == "Communication link lost"
NoData   == [sol |-> Null, ver |-> 0, errors |-> FALSE]
LatestKey   == Null                  \* the key `rover-data-latest`
LatestPoint == Null                  \* the endpoint `/rover-data`

Range(s) == {s[i] : i \in DOMAIN s}
Min(a, b) == IF a < b THEN a ELSE b
Max(a, b) == IF a > b THEN a ELSE b

----------------------------------------------------------------------------
(* DataCache *)

DataCache_get(c, key) ==
    IF key \in DOMAIN c THEN c[key] ELSE [data |-> NoData, timestamp |-> Null]

Has(c, key) == key \in DOMAIN c

DataCache_set(c, key, data, t) ==
    [k \in DOMAIN c \cup {key} |->
        IF k = key THEN [data |-> data, timestamp |-> t] ELSE c[k]]

\* mutant: the window is closed at exactly UPDATE_INTERVAL
DataCache_isStale_m(c, key, t) ==
    IF ~Has(c, key) THEN TRUE
    ELSE t - c[key].timestamp >= UPDATE_INTERVAL

DataCache_isStale(c, key, t) ==
    IF ~Has(c, key) THEN TRUE
    ELSE t - c[key].timestamp > UPDATE_INTERVAL

----------------------------------------------------------------------------
(* fetchRoverData *)

\* JavaScript truthiness of the sol argument: null and 0 are falsy
Truthy(sol) == sol # Null /\ sol # 0

\* `rover-data-${sol || 'latest'}`
cacheKey(sol) == IF Truthy(sol) THEN sol ELSE LatestKey

\* sol ? `/rover-data/${sol}` : '/rover-data'
endpoint(sol) == IF Truthy(sol) THEN sol ELSE LatestPoint

\* header.sol of the service's answer
ServerSol(ep) == IF ep = LatestPoint THEN LatestSol ELSE ep

App == [roverData |-> roverData, loading |-> loading, error |-> error,
        selectedSol |-> selectedSol, cache |-> cache,
        inflight |-> inflight, nextId |-> nextId,
        mapZoomLevel |-> mapZoomLevel, mapZoomMemory |-> mapZoomMemory]

\* mutant: the cache is consulted also on a forced refresh
fetchRoverData_m(a, sol, forceRefresh, t) ==
    LET key == cacheKey(sol)
        before == [roverData |-> a.roverData, selectedSol |-> a.selectedSol,
                   cache |-> a.cache]
    IN
    IF ~DataCache_isStale(a.cache, key, t) /\ Has(a.cache, key)
    THEN [a EXCEPT !.roverData = DataCache_get(a.cache, key).data,
                   !.selectedSol = DataCache_get(a.cache, key).data.sol,
                   !.error = NoError,
                   !.loading = FALSE]
    ELSE [a EXCEPT !.loading = TRUE,
                   !.inflight = @ \cup {[id |-> a.nextId + 1, sol |-> sol,
                                         key |-> key, endpoint |-> endpoint(sol),
                                         forced |-> forceRefresh,
                                         before |-> before]},
                   !.nextId = @ + 1]

\* the synchronous part of fetchRoverData, up to the await
fetchRoverData(a, sol, forceRefresh, t) ==
    LET key == cacheKey(sol)
        \* history: what was held when this fetch started
        before == [roverData |-> a.roverData, selectedSol |-> a.selectedSol,
                   cache |-> a.cache]
    IN
    IF ~forceRefresh /\ ~DataCache_isStale(a.cache, key, t) /\ Has(a.cache, key)
    THEN [a EXCEPT !.roverData = DataCache_get(a.cache, key).data,
                   !.selectedSol = DataCache_get(a.cache, key).data.sol,
                   !.error = NoError,
                   !.loading = FALSE]
    ELSE [a EXCEPT !.loading = TRUE,
                   !.inflight = @ \cup {[id |-> a.nextId + 1, sol |-> sol,
                                         key |-> key, endpoint |-> endpoint(sol),
                                         forced |-> forceRefresh,
                                         before |-> before]},
                   !.nextId = @ + 1]

\* TRUE iff fetchRoverData(a, sol, forceRefresh, t) reaches axios.get
CanRequest(a, sol, forceRefresh, t) ==
    \/ a.nextId < requestCap
    \/ fetchRoverData(a, sol, forceRefresh, t).nextId = a.nextId

\* response.data of a 2xx answer to request r: header.sol, the identity of the
\* answer, and whether its errors list is non-empty
ResponseData(r, errors) ==
    [sol |-> ServerSol(r.endpoint), ver |-> r.id, errors |-> errors]

\* mutant: the selected sol is taken from the request, not from the payload
fetchResolved_m(a, r, data, t) ==
    [a EXCEPT !.cache = DataCache_set(a.cache, r.key, data, t),
              !.roverData = data,
              !.selectedSol = r.sol,
              !.error = NoError,
              !.loading = FALSE,
              !.inflight = @ \ {r}]

\* mutant: a payload that reports errors is treated as a failure
fetchResolved_e(a, r, data, t) ==
    IF data.errors
    THEN [a EXCEPT !.error = LinkLost,
                   !.loading = FALSE,
                   !.inflight = @ \ {r}]
    ELSE [a EXCEPT !.cache = DataCache_set(a.cache, r.key, data, t),
                   !.roverData = data,
                   !.selectedSol = data.sol,
                   !.error = NoError,
                   !.loading = FALSE,
                   !.inflight = @ \ {r}]

\* mutant: a response that does not answer the latest request is dropped
fetchResolved_s(a, r, data, t) ==
    IF r.id # a.nextId
    THEN [a EXCEPT !.loading = FALSE,
                   !.inflight = @ \ {r}]
    ELSE [a EXCEPT !.cache = DataCache_set(a.cache, r.key, data, t),
                   !.roverData = data,
                   !.selectedSol = data.sol,
                   !.error = NoError,
                   !.loading = FALSE,
                   !.inflight = @ \ {r}]

\* the continuation of fetchRoverData after a successful response
fetchResolved(a, r, data, t) ==
    [a EXCEPT !.cache = DataCache_set(a.cache, r.key, data, t),
              !.roverData = data,
              !.selectedSol = data.sol,
              !.error = NoError,
              !.loading = FALSE,
              !.inflight = @ \ {r}]

\* catch / finally of fetchRoverData
fetchRejected(a, r) ==
    [a EXCEPT !.error = LinkLost,
              !.loading = FALSE,
              !.inflight = @ \ {r}]

----------------------------------------------------------------------------
(* Map zoom *)

RECURSIVE GCD(_, _)
GCD(m, n) == IF n = 0 THEN m ELSE GCD(n, m % n)

\* the ratio n / d in lowest terms (n, d > 0)
Ratio(n, d) == [n |-> n \div GCD(n, d), d |-> d \div GCD(n, d)]

RatioLeq(x, y) == x.n * y.d <= y.n * x.d

\* useState(1)
InitialZoom == Ratio(1, 1)

\* mutant: the level is not capped
ZoomIn_m(prev) ==
    Ratio(prev.n * 6, prev.d * 5)

\* Math.min(prev * 1.2, 3)
ZoomIn(prev) ==
    LET z == Ratio(prev.n * 6, prev.d * 5) IN
    IF RatioLeq(z, Ratio(3, 1)) THEN z ELSE Ratio(3, 1)

\* Math.max(prev / 1.2, 0.5)
ZoomOut(prev) ==
    LET z == Ratio(prev.n * 5, prev.d * 6) IN
    IF RatioLeq(Ratio(1, 2), z) THEN z ELSE Ratio(1, 2)

\* { ...prev, [sol]: level }
SetZoom(memory, sol, level) ==
    [k \in DOMAIN memory \cup {sol} |-> IF k = sol THEN level ELSE memory[k]]

\* what a handleSolChange created by a render of a sees: the dependencies
\* [selectedSol, mapZoomLevel, mapZoomMemory] of its useCallback
Closure(a) ==
    [selectedSol |-> a.selectedSol, mapZoomLevel |-> a.mapZoomLevel,
     mapZoomMemory |-> a.mapZoomMemory]

\* handleSolChange as created by a render that saw cl
handleSolChange(a, newSol, cl, t) ==
    IF newSol # cl.selectedSol
    THEN LET saved ==
                 IF cl.selectedSol # Null
                 THEN [a EXCEPT !.mapZoomMemory =
                          SetZoom(@, cl.selectedSol, cl.mapZoomLevel)]
                 ELSE a
             restored ==
                 IF newSol \in DOMAIN cl.mapZoomMemory
                 THEN [saved EXCEPT !.mapZoomLevel = cl.mapZoomMemory[newSol]]
                 ELSE saved
         IN  fetchRoverData(restored, newSol, FALSE, t)
    ELSE a

\* TRUE iff a handleSolChange that sees selSol selected calls fetchRoverData
Fetches(newSol, selSol) == newSol # selSol

\* App renders the dashboard (and with it the timeline)
Shown(a) == ~a.loading /\ a.error = NoError /\ a.roverData # NoData

----------------------------------------------------------------------------
(* AdvancedMissionTimeline *)

comprehensiveMissionEvents ==
    << [sol |-> 0,    category |-> "landing"],
       [sol |-> 18,   category |-> "mobility"],
       [sol |-> 43,   category |-> "helicopter"],
       [sol |-> 60,   category |-> "sampling"],
       [sol |-> 62,   category |-> "helicopter"],
       [sol |-> 120,  category |-> "exploration"],
       [sol |-> 180,  category |-> "helicopter"],
       [sol |-> 234,  category |-> "sampling"],
       [sol |-> 300,  category |-> "exploration"],
       [sol |-> 500,  category |-> "sampling"],
       [sol |-> 750,  category |-> "mobility"],
       [sol |-> 1000, category |-> "discovery"] >>

FilterTypes == {"all", "landing", "sampling", "helicopter", "exploration",
                "discovery", "mobility"}

\* the categories chosen in the model
FilterChoices == {"all", "landing"}

\* the search text is left empty: only the category filter is modelled
filteredEvents(ft) ==
    IF ft # "all"
    THEN LET keep(e) == e.category = ft
         IN  SelectSeq(comprehensiveMissionEvents, keep)
    ELSE comprehensiveMissionEvents

\* eventsToPlay of startAutoPlay, as the sequence of its sols
EventsToPlay(ft) ==
    LET keep(e) == e.sol >= 0 /\ e.sol <= 1000
        evs == SelectSeq(filteredEvents(ft), keep)
    IN  [i \in 1..Len(evs) |-> evs[i].sol]

\* Math.round(v) for v = n / d, d > 0
RoundDiv(n, d) == (2 * n + d) \div (2 * d)

\* mutant: the percentage is not clamped to [0,1]
NewSolFixed_m(x, w) ==
    RoundDiv(x * maxSol, w)

\* newSol of handleInteraction for pointer offset x on a track of width w
NewSolFixed(x, w) ==
    LET cx == Max(0, Min(w, x))      \* percentage = cx / w, clamped to [0,1]
    IN  RoundDiv(cx * maxSol, w)

\* the timeline state of a freshly mounted component
\* no closure is held
NoZoom == [mapZoomLevel |-> InitialZoom, mapZoomMemory |-> <<>>]

\* the options of the speed selector, in halves: 0.5x, 1x, 2x, 4x
SpeedOptions == {1, 2, 4, 8}

\* useState(1) of playbackSpeed, in halves
InitialSpeed == 2

\* ms / playbackSpeed, for a speed in halves
Delay(ms, speed) == (2 * ms) \div speed

FreshTimeline ==
    [isDragging |-> FALSE, isAutoPlay |-> FALSE, autoPlayRef |-> FALSE,
     autoPlayTimers |-> 0,
     filterType |-> "all", playbackSpeed |-> InitialSpeed, timerDelay |-> 0,
     eventsToPlay |-> <<>>, capturedSpeed |-> 0, currentIndex |-> 0,
     capturedSol |-> Null, capturedZoom |-> NoZoom]

Timeline ==
    [isDragging |-> isDragging, isAutoPlay |-> isAutoPlay,
     autoPlayRef |-> autoPlayRef, autoPlayTimers |-> autoPlayTimers,
     filterType |-> filterType,
     playbackSpeed |-> playbackSpeed, timerDelay |-> timerDelay,
     eventsToPlay |-> eventsToPlay, capturedSpeed |-> capturedSpeed,
     currentIndex |-> currentIndex,
     capturedSol |-> capturedSol, capturedZoom |-> capturedZoom]

\* mutant: the pending timer is not cleared
stopAutoPlay_m(tl) ==
    [tl EXCEPT !.isAutoPlay = FALSE]

\* clearTimeout(autoPlayRef.current): the timer the ref holds is no longer
\* pending
clearAutoPlayTimer(tl) ==
    IF tl.autoPlayRef
    THEN [tl EXCEPT !.autoPlayTimers = @ - 1, !.autoPlayRef = FALSE,
                    !.timerDelay = 0]
    ELSE tl

\* mutant: the ref is reset without clearing the timer it holds
stopAutoPlay_n(tl) ==
    [tl EXCEPT !.autoPlayRef = FALSE, !.isAutoPlay = FALSE,
               !.eventsToPlay = <<>>, !.capturedSpeed = 0,
               !.currentIndex = 0, !.capturedSol = Null,
               !.capturedZoom = NoZoom]

\* stopAutoPlay
stopAutoPlay(tl) ==
    [clearAutoPlayTimer(tl) EXCEPT
               !.autoPlayRef = FALSE, !.isAutoPlay = FALSE,
               !.eventsToPlay = <<>>, !.capturedSpeed = 0,
               !.currentIndex = 0, !.capturedSol = Null,
               !.capturedZoom = NoZoom]

----------------------------------------------------------------------------
(* Rendering: the state after a callback has run and React has rendered *)

\* the cleanup effect of the timeline, run when it is unmounted: the timer
\* that autoPlayRef holds is cleared; the state of the next mount is fresh
Unmount(tl) ==
    [FreshTimeline EXCEPT !.autoPlayTimers = clearAutoPlayTimer(tl).autoPlayTimers,
                          !.timerDelay = clearAutoPlayTimer(tl).timerDelay]

\* mutant: the effect has no cleanup
LiveIntervals_m(a, live) ==
    IF a.selectedSol # selectedSol \/ live # isLiveMode \/ ~appMounted
    THEN liveIntervals + (IF live THEN 1 ELSE 0)
    ELSE liveIntervals

\* the live-mode effect, deps [selectedSol, isLiveMode, fetchRoverData]: when
\* a dependency has changed, the cleanup of the previous run clears the
\* interval that run created, and the new run creates one if live mode is on
LiveIntervals(a, live) ==
    IF a.selectedSol # selectedSol \/ live # isLiveMode \/ ~appMounted
    THEN liveIntervals - (IF appMounted /\ isLiveMode THEN 1 ELSE 0)
                       + (IF live THEN 1 ELSE 0)
    ELSE liveIntervals

\* mutant: the drag effect has no cleanup
DragListeners_m(t) ==
    dragListeners + (IF t.isDragging THEN 1 ELSE 0)

\* the drag effect of the timeline, deps [isDragging, handleMouseMove,
\* handleMouseUp], for the timeline state t rendered next: the cleanup of the
\* run that attached the listeners removes them (on a change of the
\* dependencies or on unmount), and the new run attaches a pair while dragging
DragListeners(t) ==
    dragListeners - (IF isDragging THEN 1 ELSE 0)
                  + (IF t.isDragging THEN 1 ELSE 0)

\* the live-mode effect: deps [selectedSol, isLiveMode, fetchRoverData]
LiveEffect(a, live, fired) ==
    IF ~live THEN Null
    ELSE IF a.selectedSol # selectedSol \/ live # isLiveMode \/ ~appMounted
              \/ fired
         THEN now
         ELSE liveSince

Render(a, tl, live, fired) ==
    /\ roverData' = a.roverData
    /\ loading' = a.loading
    /\ error' = a.error
    /\ selectedSol' = a.selectedSol
    /\ cache' = a.cache
    /\ inflight' = a.inflight
    /\ nextId' = a.nextId
    /\ mapZoomLevel' = a.mapZoomLevel
    /\ mapZoomMemory' = a.mapZoomMemory
    /\ isLiveMode' = live
    /\ liveSince' = LiveEffect(a, live, fired)
    /\ liveIntervals' = LiveIntervals(a, live)
    /\ LET t == IF Shown(a) THEN tl ELSE Unmount(tl) IN
       /\ autoPlayTimers' = t.autoPlayTimers
       /\ dragListeners' = DragListeners(t)
       /\ isDragging' = t.isDragging
       /\ isAutoPlay' = t.isAutoPlay
       /\ autoPlayRef' = t.autoPlayRef
       /\ filterType' = t.filterType
       /\ playbackSpeed' = t.playbackSpeed
       /\ timerDelay' = t.timerDelay
       /\ eventsToPlay' = t.eventsToPlay
       /\ capturedSpeed' = t.capturedSpeed
       /\ currentIndex' = t.currentIndex
       /\ capturedSol' = t.capturedSol
       /\ capturedZoom' = t.capturedZoom

NoneInt == -2

\* history record of an operation: its argument, whether it called
\* fetchRoverData and whether that call issued a network request
Op(name, arg, fsol, a) ==
    [op |-> name, arg |-> arg, called |-> fsol # NoneInt,
     req |-> a.nextId # nextId]

NoRun == [state |-> "idle", touched |-> FALSE, sol |-> Null, speed |-> 0,
          events |-> <<>>, requested |-> <<>>, stepped |-> <<>>]

\* history of the auto-play run: a finished run is remembered until the next
\* operation; a run is over once the timeline is unmounted
RunAfter(r, a) ==
    IF r.state = "running"
    THEN IF Shown(a) THEN r ELSE [r EXCEPT !.state = "unmounted"]
    ELSE IF r = run THEN NoRun ELSE r

Touch(r) == IF r.state = "running" THEN [r EXCEPT !.touched = TRUE] ELSE r

----------------------------------------------------------------------------
(* History of the payload applied for a key.  pinned[k] is the payload that  *)
(* the first selection resolving to key k applied, and the timestamp of the  *)
(* cache entry it came from; it is kept while that entry's window lasts and  *)
(* dropped by any forced refresh (issued or answered).                       *)

SelectOps == {"jump", "mouseDown", "mouseMove", "start", "playNext", "playEnd"}

PinValid(p, k, t) == k \in DOMAIN p /\ t - p[k].timestamp <= UPDATE_INTERVAL

Pin(p, k, data, ts) ==
    [x \in DOMAIN p \cup {k} |->
        IF x = k THEN [data |-> data, timestamp |-> ts] ELSE p[x]]

Unexpired(p, t) ==
    [x \in {k \in DOMAIN p : PinValid(p, k, t)} |-> p[x]]

PinUpdate ==
    pinned' =
      IF now' # now THEN Unexpired(pinned, now')
      ELSE IF last'.op = "live" THEN <<>>
      ELSE IF last'.op = "resolve"
      THEN LET r == CHOOSE q \in inflight : q \notin inflight' IN
           IF r.forced THEN <<>>
           ELSE IF r.sol # Null /\ ~PinValid(pinned, r.key, now)
                THEN Pin(pinned, r.key, roverData', now)
                ELSE pinned
      ELSE IF /\ last'.op \in SelectOps /\ last'.called /\ ~last'.req
              /\ ~PinValid(pinned, cacheKey(last'.arg), now)
           THEN Pin(pinned, cacheKey(last'.arg), roverData',
                    cache[cacheKey(last'.arg)].timestamp)
           ELSE pinned


\* history: the zoom level at which the user left a sol, recorded when a
\* timeline operation asks for a sol other than the selected one
ZoomHistory ==
    leftZoom' =
      IF /\ now' = now /\ last'.op \in SelectOps
         /\ selectedSol # Null /\ last'.arg # selectedSol
      THEN SetZoom(leftZoom, selectedSol, mapZoomLevel)
      ELSE leftZoom

----------------------------------------------------------------------------
(* Initial state: App and DataCache as constructed, before the mount effects *)

NoCalc == [op |-> "none"]

MainInit ==
    /\ roverData = NoData
    /\ loading = TRUE
    /\ error = NoError
    /\ selectedSol = Null
    /\ isLiveMode = TRUE
    /\ cache = <<>>
    /\ now = 0
    /\ inflight = {}
    /\ nextId = 0
    /\ appMounted = FALSE
    /\ liveSince = Null
    /\ isDragging = FALSE
    /\ dragListeners = 0
    /\ isAutoPlay = FALSE
    /\ autoPlayRef = FALSE
    /\ autoPlayTimers = 0
    /\ liveIntervals = 0
    /\ filterType = "all"
    /\ playbackSpeed = InitialSpeed
    /\ timerDelay = 0
    /\ eventsToPlay = <<>>
    /\ capturedSpeed = 0
    /\ currentIndex = 0
    /\ capturedSol = Null
    /\ capturedZoom = NoZoom
    /\ mapZoomLevel = InitialZoom
    /\ mapZoomMemory = <<>>
    /\ leftZoom = <<>>
    /\ last = [op |-> "init", arg |-> NoneInt, called |-> FALSE, req |-> FALSE]
    /\ run = NoRun
    /\ setAt = <<>>
    /\ pinned = <<>>

NoDiscoveries == notifications = <<>> /\ discoveries = 0 /\ discoveryCap = 0

Init ==
    /\ MainInit /\ calc = NoCalc /\ NoDiscoveries
    /\ requestCap = MaxRequests /\ timeCap = MaxTime

\* the same initial state, for the specification of App alone (SpecLive)
InitLive ==
    /\ MainInit /\ calc = NoCalc /\ NoDiscoveries
    /\ requestCap = MaxLiveRequests /\ timeCap = MaxTime

\* the same initial state, for the specification of the notifications
\* (SpecNotify): a longer clock, more requests, and discoveries
InitNotify ==
    /\ MainInit /\ calc = NoCalc
    /\ notifications = <<>> /\ discoveries = 0
    /\ discoveryCap = MaxDiscoveries
    /\ requestCap = MaxNotifyRequests /\ timeCap = MaxNotifyTime

----------------------------------------------------------------------------
(* App: effects, timers and promise continuations *)

\* useEffect(() => { fetchRoverData(); }, [fetchRoverData]) and the first run
\* of the live-mode effect
MountEffect ==
    /\ ~appMounted
    /\ appMounted' = TRUE
    /\ LET a == fetchRoverData(App, Null, FALSE, now) IN
       /\ Render(a, Timeline, isLiveMode, FALSE)
       /\ last' = Op("mount", NoneInt, Null, a)
       /\ run' = RunAfter(run, a)
    /\ UNCHANGED <<now, setAt, calc>>
    /\ PinUpdate /\ ZoomHistory
    /\ UNCHANGED <<capVars, noteVars>>

\* time passes
Tick ==
    /\ now + TimeStep <= timeCap
    /\ now' = now + TimeStep
    /\ UNCHANGED <<appVars, inflight, nextId, appMounted, liveSince,
                   liveIntervals, tlVars, last, run, setAt, calc>>
    /\ PinUpdate /\ ZoomHistory
    /\ UNCHANGED <<capVars, noteVars>>

\* axios.get resolves with a 2xx response
ResolveWith(r, errors) ==
    /\ r \in inflight
    /\ LET a == fetchResolved(App, r, ResponseData(r, errors), now) IN
       /\ Render(a, Timeline, isLiveMode, FALSE)
       /\ last' = Op("resolve", r.id, r.sol, a)
       /\ run' = RunAfter(run, a)
    /\ setAt' = [k \in DOMAIN setAt \cup {r.key} |->
                    IF k = r.key THEN now ELSE setAt[k]]
    /\ UNCHANGED <<now, appMounted, calc>>
    /\ PinUpdate /\ ZoomHistory
    /\ UNCHANGED <<capVars, noteVars>>

\* the answer carries an empty errors list
Resolve(r) == ResolveWith(r, FALSE)

\* the answer carries a non-empty errors list
ResolveWithErrors(r) == ResolveWith(r, TRUE)

\* axios.get rejects: network error or non-2xx response
Reject(r) ==
    /\ r \in inflight
    /\ LET a == fetchRejected(App, r) IN
       /\ Render(a, Timeline, isLiveMode, FALSE)
       /\ last' = Op("reject", r.id, r.sol, a)
       /\ run' = RunAfter(run, a)
    /\ UNCHANGED <<now, appMounted, setAt, calc>>
    /\ PinUpdate /\ ZoomHistory
    /\ UNCHANGED <<capVars, noteVars>>

\* the type of the three simulated discoveries
DiscoveryTypes == {"discovery", "sample", "data"}

\* mutant: the new entry is appended to the whole list
addDiscovery_m(prev, d) == Append(prev, d)

\* [...prev.slice(-2), randomDiscovery]
addDiscovery(prev, d) ==
    Append(SubSeq(prev, Max(1, Len(prev) - 1), Len(prev)), d)

\* the discovery simulation of the interval callback; hit stands for
\* Math.random() < 0.05, d for the discovery drawn.  The field n of a
\* notification is history: the order in which the entries were created
simulateDiscovery(prev, sel, hit, d) ==
    IF hit /\ Truthy(sel) THEN addDiscovery(prev, d) ELSE prev

\* prev.filter((_, i) => i !== index), index counted from 0
dismissAt(prev, index) ==
    LET keep == {i \in 1..Len(prev) : i - 1 # index} IN
    [j \in 1..Cardinality(keep) |->
        prev[CHOOSE i \in keep : Cardinality({k \in keep : k < i}) = j - 1]]

\* the setInterval callback of the live-mode effect
LiveTick ==
    /\ appMounted /\ isLiveMode /\ liveSince # Null
    /\ now - liveSince >= UPDATE_INTERVAL
    /\ nextId < requestCap
    /\ LET a == fetchRoverData(App, selectedSol, TRUE, now) IN
       /\ Render(a, Timeline, isLiveMode, TRUE)
       /\ last' = Op("live", NoneInt, selectedSol, a)
       /\ run' = RunAfter(run, a)
    \* Math.random() < 0.05 is drawn (hit) at most discoveryCap times
    /\ \E hit \in BOOLEAN, type \in DiscoveryTypes :
          /\ hit => discoveries < discoveryCap
          /\ notifications' =
                 simulateDiscovery(notifications, selectedSol, hit,
                                   [type |-> type, sol |-> selectedSol,
                                    n |-> discoveries + 1])
          /\ discoveries' = IF notifications' # notifications
                            THEN discoveries + 1 ELSE discoveries
    /\ UNCHANGED <<now, appMounted, setAt, calc>>
    /\ PinUpdate /\ ZoomHistory
    /\ UNCHANGED capVars

\* the live-toggle button of the header
ToggleLive ==
    /\ appMounted /\ Shown(App)
    /\ Render(App, Timeline, ~isLiveMode, FALSE)
    /\ last' = Op("toggleLive", NoneInt, NoneInt, App)
    /\ run' = RunAfter(Touch(run), App)
    /\ UNCHANGED <<now, appMounted, setAt, calc>>
    /\ PinUpdate /\ ZoomHistory
    /\ UNCHANGED <<capVars, noteVars>>

\* mutant: the retry asks again for the sol that is selected
retry_m(a, t) == fetchRoverData(a, a.selectedSol, FALSE, t)

\* onClick of the retry button: fetchRoverData() with both arguments left out
retry(a, t) == fetchRoverData(a, Null, FALSE, t)

\* the close button of notification index (rendered with the dashboard)
handleNotificationDismiss(index) ==
    /\ appMounted /\ Shown(App)
    /\ index \in 0..(Len(notifications) - 1)
    /\ notifications' = dismissAt(notifications, index)
    /\ Render(App, Timeline, isLiveMode, FALSE)
    /\ last' = Op("dismiss", index, NoneInt, App)
    /\ run' = RunAfter(run, App)
    /\ UNCHANGED <<now, appMounted, setAt, calc, discoveries>>
    /\ PinUpdate /\ ZoomHistory
    /\ UNCHANGED capVars

\* the RETRY CONNECTION button of the error screen
Retry ==
    /\ appMounted /\ ~loading /\ error # NoError
    /\ CanRequest(App, Null, FALSE, now)
    /\ LET a == retry(App, now) IN
       /\ Render(a, Timeline, isLiveMode, FALSE)
       /\ last' = Op("retry", NoneInt, Null, a)
       /\ run' = RunAfter(run, a)
    /\ UNCHANGED <<now, appMounted, setAt, calc>>
    /\ PinUpdate /\ ZoomHistory
    /\ UNCHANGED <<capVars, noteVars>>

----------------------------------------------------------------------------
(* AdvancedMissionTimeline: event handlers and the auto-play timer *)

TimelineMounted == appMounted /\ Shown(App)

Offsets == -1 .. TrackWidth + 1      \* e.clientX - rect.left

\* onChange of the category select
SetFilter(ft) ==
    /\ TimelineMounted
    /\ ft # filterType
    /\ Render(App, [Timeline EXCEPT !.filterType = ft], isLiveMode, FALSE)
    /\ last' = Op("filter", NoneInt, NoneInt, App)
    /\ run' = RunAfter(run, App)
    /\ UNCHANGED <<now, appMounted, setAt, calc>>
    /\ PinUpdate /\ ZoomHistory
    /\ UNCHANGED <<capVars, noteVars>>

\* onChange of the speed selector
SetSpeed(sp) ==
    /\ TimelineMounted
    /\ sp # playbackSpeed
    /\ Render(App, [Timeline EXCEPT !.playbackSpeed = sp], isLiveMode, FALSE)
    /\ last' = Op("speed", NoneInt, NoneInt, App)
    /\ run' = RunAfter(run, App)
    /\ UNCHANGED <<now, appMounted, setAt, calc>>
    /\ PinUpdate /\ ZoomHistory
    /\ UNCHANGED <<capVars, noteVars>>

\* startAutoPlay (the AUTO PLAY button is rendered while !isAutoPlay)
startAutoPlay ==
    /\ TimelineMounted
    /\ ~isAutoPlay
    /\ CanRequest(App, 1, FALSE, now)
    /\ IF autoPlayRef
       THEN /\ Render(App, Timeline, isLiveMode, FALSE)
            /\ last' = Op("start", NoneInt, NoneInt, App)
            /\ run' = RunAfter(run, App)
       ELSE LET a  == handleSolChange(App, 1, Closure(App), now)
                tl == [Timeline EXCEPT
                          !.isAutoPlay = TRUE,
                          !.autoPlayRef = TRUE,
                          !.autoPlayTimers = @ + 1,
                          !.timerDelay = Delay(1000, playbackSpeed),
                          !.eventsToPlay = EventsToPlay(filterType),
                          !.capturedSpeed = playbackSpeed,
                          !.currentIndex = 0,
                          !.capturedSol = selectedSol,
                          !.capturedZoom =
                              [mapZoomLevel |-> mapZoomLevel,
                               mapZoomMemory |-> mapZoomMemory]]
            IN  /\ Render(a, tl, isLiveMode, FALSE)
                /\ last' = Op("start", 1,
                              IF Fetches(1, selectedSol) THEN 1 ELSE NoneInt, a)
                /\ run' = RunAfter(
                      [state |-> "running", touched |-> FALSE,
                       sol |-> selectedSol, speed |-> playbackSpeed,
                       events |-> EventsToPlay(filterType),
                       requested |-> IF Fetches(1, selectedSol)
                                     THEN <<1>> ELSE <<>>,
                       stepped |-> <<>>], a)
    /\ UNCHANGED <<now, appMounted, setAt, calc>>
    /\ PinUpdate /\ ZoomHistory
    /\ UNCHANGED <<capVars, noteVars>>

\* what the onSolChange captured by startAutoPlay sees
Captured ==
    [selectedSol |-> capturedSol, mapZoomLevel |-> capturedZoom.mapZoomLevel,
     mapZoomMemory |-> capturedZoom.mapZoomMemory]

\* the timeline when the timer that autoPlayRef holds has just fired
FiredTimeline == clearAutoPlayTimer(Timeline)

\* mutant: playNext reads the values of the current render
PlayClosure_m ==
    [eventsToPlay |-> EventsToPlay(filterType),
     playbackSpeed |-> playbackSpeed,
     onSolChange |-> Closure(App)]

\* what playNext sees: the eventsToPlay, playbackSpeed and onSolChange of the
\* startAutoPlay call that created it
PlayClosure ==
    [eventsToPlay |-> eventsToPlay,
     playbackSpeed |-> capturedSpeed,
     onSolChange |-> Captured]

\* playNext, the callback of the auto-play timer
playNext ==
    /\ TimelineMounted
    /\ autoPlayRef /\ autoPlayTimers > 0
    /\ IF currentIndex < Len(PlayClosure.eventsToPlay)
       THEN LET sol == PlayClosure.eventsToPlay[currentIndex + 1]
                a   == handleSolChange(App, sol, PlayClosure.onSolChange, now)
                tl  == [FiredTimeline EXCEPT
                           !.currentIndex = @ + 1,
                           !.autoPlayRef = TRUE,
                           !.autoPlayTimers = @ + 1,
                           !.timerDelay =
                               Delay(2000, PlayClosure.playbackSpeed)]
                f   == Fetches(sol, PlayClosure.onSolChange.selectedSol)
            IN  /\ CanRequest(App, sol, FALSE, now) \/ ~f
                /\ Render(a, tl, isLiveMode, FALSE)
                /\ last' = Op("playNext", sol, IF f THEN sol ELSE NoneInt, a)
                /\ run' = RunAfter(
                      [run EXCEPT
                          !.requested = IF f THEN Append(@, sol) ELSE @,
                          !.stepped = IF f THEN Append(@, sol) ELSE @], a)
       ELSE LET a  == handleSolChange(App, 1000, PlayClosure.onSolChange, now)
                tl == stopAutoPlay(FiredTimeline)
                f  == Fetches(1000, PlayClosure.onSolChange.selectedSol)
            IN  /\ CanRequest(App, 1000, FALSE, now) \/ ~f
                /\ Render(a, tl, isLiveMode, FALSE)
                /\ last' = Op("playEnd", 1000, IF f THEN 1000 ELSE NoneInt, a)
                /\ run' = [run EXCEPT
                              !.state = "completed",
                              !.requested = IF f THEN Append(@, 1000) ELSE @]
    /\ UNCHANGED <<now, appMounted, setAt, calc>>
    /\ PinUpdate /\ ZoomHistory
    /\ UNCHANGED <<capVars, noteVars>>

\* the PAUSE button (rendered while isAutoPlay): stopAutoPlay
Pause ==
    /\ TimelineMounted
    /\ isAutoPlay
    /\ Render(App, stopAutoPlay(Timeline), isLiveMode, FALSE)
    /\ last' = Op("pause", NoneInt, NoneInt, App)
    /\ run' = IF run.state = "running"
              THEN [run EXCEPT !.state = "stopped", !.touched = TRUE]
              ELSE RunAfter(run, App)
    /\ UNCHANGED <<now, appMounted, setAt, calc>>
    /\ PinUpdate /\ ZoomHistory
    /\ UNCHANGED <<capVars, noteVars>>

\* handleInteraction: the App state after it, for pointer offset x on a
\* track of width w
handleInteraction(a, x, w, t) ==
    LET newSol == NewSolFixed(x, w) IN
    IF newSol # a.selectedSol
    THEN handleSolChange(a, newSol, Closure(a), t)
    ELSE a

\* handleMouseDown on the timeline track
handleMouseDown(x) ==
    /\ TimelineMounted
    /\ LET newSol == NewSolFixed(x, TrackWidth)
           a  == handleInteraction(App, x, TrackWidth, now)
           tl == stopAutoPlay([Timeline EXCEPT !.isDragging = TRUE])
           f  == Fetches(newSol, selectedSol)
       IN  /\ CanRequest(App, newSol, FALSE, now) \/ ~f
           /\ Render(a, tl, isLiveMode, FALSE)
           /\ last' = Op("mouseDown", newSol, IF f THEN newSol ELSE NoneInt, a)
           /\ run' = RunAfter(IF run.state = "running"
                              THEN [run EXCEPT !.state = "stopped",
                                               !.touched = TRUE]
                              ELSE run, a)
    /\ UNCHANGED <<now, appMounted, setAt, calc>>
    /\ PinUpdate /\ ZoomHistory
    /\ UNCHANGED <<capVars, noteVars>>

\* handleMouseMove, the document listener attached while dragging
handleMouseMove(x) ==
    /\ TimelineMounted
    /\ isDragging
    /\ LET newSol == NewSolFixed(x, TrackWidth)
           a  == handleInteraction(App, x, TrackWidth, now)
           f  == Fetches(newSol, selectedSol)
       IN  /\ CanRequest(App, newSol, FALSE, now) \/ ~f
           /\ Render(a, Timeline, isLiveMode, FALSE)
           /\ last' = Op("mouseMove", newSol, IF f THEN newSol ELSE NoneInt, a)
           /\ run' = RunAfter(Touch(run), a)
    /\ UNCHANGED <<now, appMounted, setAt, calc>>
    /\ PinUpdate /\ ZoomHistory
    /\ UNCHANGED <<capVars, noteVars>>

\* handleMouseUp, the document listener attached while dragging
handleMouseUp ==
    /\ TimelineMounted
    /\ isDragging
    /\ Render(App, [Timeline EXCEPT !.isDragging = FALSE], isLiveMode, FALSE)
    /\ last' = Op("mouseUp", NoneInt, NoneInt, App)
    /\ run' = RunAfter(Touch(run), App)
    /\ UNCHANGED <<now, appMounted, setAt, calc>>
    /\ PinUpdate /\ ZoomHistory
    /\ UNCHANGED <<capVars, noteVars>>

\* onClick of an event marker: onSolChange(eventSol)
jumpToEvent(i) ==
    /\ TimelineMounted
    /\ i \in 1..Min(MaxClick, Len(filteredEvents(filterType)))
    /\ LET eventSol == filteredEvents(filterType)[i].sol
           a == handleSolChange(App, eventSol, Closure(App), now)
           f == Fetches(eventSol, selectedSol)
       IN  /\ CanRequest(App, eventSol, FALSE, now) \/ ~f
           /\ Render(a, Timeline, isLiveMode, FALSE)
           /\ last' = Op("jump", eventSol, IF f THEN eventSol ELSE NoneInt, a)
           /\ run' = RunAfter(Touch(run), a)
    /\ UNCHANGED <<now, appMounted, setAt, calc>>
    /\ PinUpdate /\ ZoomHistory
    /\ UNCHANGED <<capVars, noteVars>>

\* zoom levels within MaxZoomSteps presses of the initial level
RECURSIVE ZoomReach(_)
ZoomReach(k) ==
    IF k = 0 THEN {InitialZoom}
    ELSE LET R == ZoomReach(k - 1) IN
         R \cup {ZoomIn(z) : z \in R} \cup {ZoomOut(z) : z \in R}

ZoomLevels == ZoomReach(MaxZoomSteps)

\* a zoom button of the map (rendered with the dashboard) sets the level to z
SetZoomLevel(name, z) ==
    /\ appMounted /\ Shown(App)
    /\ z \in ZoomLevels
    /\ Render([App EXCEPT !.mapZoomLevel = z], Timeline, isLiveMode, FALSE)
    /\ last' = Op(name, NoneInt, NoneInt, App)
    /\ run' = RunAfter(run, App)
    /\ UNCHANGED <<now, appMounted, setAt, calc>>
    /\ PinUpdate /\ ZoomHistory
    /\ UNCHANGED <<capVars, noteVars>>

handleZoomIn == SetZoomLevel("zoomIn", ZoomIn(mapZoomLevel))

handleZoomOut == SetZoomLevel("zoomOut", ZoomOut(mapZoomLevel))

handleResetZoom == SetZoomLevel("resetZoom", InitialZoom)

----------------------------------------------------------------------------
Next ==
    \/ MountEffect
    \/ Tick
    \/ \E r \in inflight : Resolve(r)
    \/ \E r \in inflight : Reject(r)
    \/ LiveTick
    \/ ToggleLive
    \/ Retry
    \/ \E ft \in FilterChoices : SetFilter(ft)
    \/ startAutoPlay
    \/ playNext
    \/ Pause
    \/ \E x \in Offsets : handleMouseDown(x)
    \/ \E x \in Offsets : handleMouseMove(x)
    \/ handleMouseUp
    \/ \E i \in 1..Len(comprehensiveMissionEvents) : jumpToEvent(i)

Spec == Init /\ [][Next]_vars

\* App alone: loading, live refresh, failure and retry, with the event markers
\* as the only way to change the sol; one more request than in Spec
NextLive ==
    \/ MountEffect
    \/ Tick
    \/ \E r \in inflight : Resolve(r)
    \/ \E r \in inflight : Reject(r)
    \/ \E r \in inflight : ResolveWithErrors(r)
    \/ LiveTick
    \/ ToggleLive
    \/ Retry
    \/ \E i \in 1..Len(comprehensiveMissionEvents) : jumpToEvent(i)

SpecLive == InitLive /\ [][NextLive]_vars

\* App with the zoom buttons of the map and the event markers as the only way
\* to change the sol; the clock lets cache entries expire
NextZoom ==
    \/ MountEffect
    \/ Tick
    \/ \E r \in inflight : Resolve(r)
    \/ \E r \in inflight : Reject(r)
    \/ Retry
    \/ \E i \in 1..Len(comprehensiveMissionEvents) : jumpToEvent(i)
    \/ handleZoomIn
    \/ handleZoomOut
    \/ handleResetZoom

SpecZoom == InitLive /\ [][NextZoom]_vars

\* the timeline's auto-play with its filter and speed selectors, and the
\* event markers; one more request than in Spec, no clock
NextPlay ==
    \/ MountEffect
    \/ \E r \in inflight : Resolve(r)
    \/ \E ft \in FilterChoices : SetFilter(ft)
    \/ \E sp \in SpeedOptions : SetSpeed(sp)
    \/ startAutoPlay
    \/ playNext
    \/ Pause
    \/ \E i \in 1..Len(comprehensiveMissionEvents) : jumpToEvent(i)

SpecPlay == InitLive /\ [][NextPlay]_vars

\* App in live mode with its notifications: the interval callback, the
\* answers to its requests, and the close buttons of the notifications
NextNotify ==
    \/ MountEffect
    \/ Tick
    \/ \E r \in inflight : Resolve(r)
    \/ LiveTick
    \/ \E index \in 0..2 : handleNotificationDismiss(index)

SpecNotify == InitNotify /\ [][NextNotify]_vars

----------------------------------------------------------------------------
(* handleMouseDown statement by statement (SpecDown).  The handler runs      *)
(* setIsDragging(true); handleInteraction(e); stopAutoPlay() without         *)
(* yielding: while it is in progress no other callback runs.  calc holds the *)
(* position of the handler and the state updates it has queued; what it has  *)
(* done outside React state (the request issued, the timer cleared) is       *)
(* visible at once.                                                          *)

\* setIsDragging(true); handleInteraction(e)
handleMouseDownSeek(x) ==
    /\ TimelineMounted
    /\ calc = NoCalc
    /\ LET newSol == NewSolFixed(x, TrackWidth)
           a  == handleInteraction(App, x, TrackWidth, now)
           f  == Fetches(newSol, selectedSol)
       IN  /\ CanRequest(App, newSol, FALSE, now) \/ ~f
           /\ calc' = [op |-> "mouseDown", newSol |-> newSol, called |-> f,
                       req |-> a.nextId # nextId, a |-> a]
           /\ inflight' = a.inflight
           /\ nextId' = a.nextId
    /\ UNCHANGED <<appVars, now, appMounted, liveSince, liveIntervals, tlVars,
                   ghostVars, capVars, noteVars>>

\* stopAutoPlay(), the end of the handler, and the render that follows
handleMouseDownStop ==
    /\ calc # NoCalc /\ calc.op = "mouseDown"
    /\ LET tl == stopAutoPlay([Timeline EXCEPT !.isDragging = TRUE])
       IN  /\ Render(calc.a, tl, isLiveMode, FALSE)
           /\ last' = [op |-> "mouseDown", arg |-> calc.newSol,
                       called |-> calc.called, req |-> calc.req]
           /\ run' = RunAfter(IF run.state = "running"
                              THEN [run EXCEPT !.state = "stopped",
                                               !.touched = TRUE]
                              ELSE run, calc.a)
    /\ calc' = NoCalc
    /\ UNCHANGED <<now, appMounted, setAt>>
    /\ PinUpdate /\ ZoomHistory
    /\ UNCHANGED <<capVars, noteVars>>

NextDown ==
    \/ calc = NoCalc /\ MountEffect
    \/ calc = NoCalc /\ \E r \in inflight : Resolve(r)
    \/ calc = NoCalc /\ startAutoPlay
    \/ calc = NoCalc /\ playNext
    \/ calc = NoCalc /\ handleMouseUp
    \/ \E x \in Offsets : handleMouseDownSeek(x)
    \/ handleMouseDownStop

SpecDown == InitLive /\ [][NextDown]_vars

----------------------------------------------------------------------------
(* Pure computations of the timeline, both revisions (SpecCalc)             *)

\* JavaScript numbers that a division of integers can yield: the quotient
\* n / d (d > 0), NaN, or an infinity
Num(n, d) == [kind |-> "num", n |-> n, d |-> d]
NaN       == [kind |-> "NaN", n |-> 0, d |-> 0]
Infinity(sign) == [kind |-> "Infinity", n |-> sign, d |-> 0]

\* a / b for integers a and b
JSDiv(a, b) ==
    IF b = 0
    THEN IF a = 0 THEN NaN ELSE Infinity(IF a > 0 THEN 1 ELSE -1)
    ELSE IF b > 0 THEN Num(a, b) ELSE Num(-a, -b)

\* v * k for an integer k > 0
JSMul(v, k) == IF v.kind = "num" THEN Num(v.n * k, v.d) ELSE v

IsZero(v) == v.kind = "num" /\ v.n = 0

\* the sols list of a payload: n consecutive sols ending at the latest sol
SolsList(n) == [i \in 1..n |-> LatestSol - n + i]

\* sols.indexOf(sol), 0-based, -1 if absent
indexOf(sols, sol) ==
    IF \E i \in DOMAIN sols : sols[i] = sol
    THEN (CHOOSE i \in DOMAIN sols :
             sols[i] = sol /\ \A j \in DOMAIN sols : sols[j] = sol => i <= j) - 1
    ELSE -1

\* mutant: the percentage is |x| / width, not clamped below at 0
NewSolList_m(sols, x, w) ==
    IF Len(sols) = 0 THEN NoneInt
    ELSE LET cx    == Min(w, IF x < 0 THEN -x ELSE x)
             index == (cx * Len(sols)) \div w
         IN  sols[Min(index, Len(sols) - 1) + 1]

\* list revision, handleInteraction: the sol passed on, NoneInt if the handler
\* returns early
NewSolList(sols, x, w) ==
    IF Len(sols) = 0 THEN NoneInt
    ELSE LET cx    == Max(0, Min(w, x))
             index == (cx * Len(sols)) \div w      \* Math.floor
         IN  sols[Min(index, Len(sols) - 1) + 1]

\* mutant: the percentage is taken over maxSol + 1 sols
percentageFixed_m(sel) ==
    JSMul(JSDiv(IF sel = Null THEN 0 ELSE sel, maxSol + 1), 100)

\* fixed-range revision: percentage = (selectedSol / maxSol) * 100
percentageFixed(sel) ==
    JSMul(JSDiv(IF sel = Null THEN 0 ELSE sel, maxSol), 100)

\* list revision:
\* percentage = sols.length > 0 ? (selectedIndex / (sols.length - 1)) * 100 : 0
percentageList(sols, sel) ==
    IF Len(sols) > 0
    THEN JSMul(JSDiv(indexOf(sols, sel), Len(sols) - 1), 100)
    ELSE Num(0, 1)

CalcOffsets == -2 .. MaxCalcX
CalcWidths  == 1 .. (MaxCalcX - 2)
CalcSols    == {Null, 0, 1, 500, 999, 1000}
CalcLists   == {SolsList(n) : n \in 0..MaxListLen}

\* list revision, handleInteraction: the App state after it
handleInteractionList(a, sols, x, w, t) ==
    IF Len(sols) = 0 THEN a
    ELSE LET newSol == NewSolList(sols, x, w) IN
         IF newSol # a.selectedSol
         THEN handleSolChange(a, newSol, Closure(a), t)
         ELSE a

\* an App that holds the payload of sol sel and has an empty cache
AppAt(sel) ==
    [roverData |-> [sol |-> sel, ver |-> 0, errors |-> FALSE], loading |-> FALSE,
     error |-> NoError, selectedSol |-> sel, cache |-> <<>>,
     inflight |-> {}, nextId |-> 0,
     mapZoomLevel |-> InitialZoom, mapZoomMemory |-> <<>>]

SeekFixed(x, w, sel) ==
    calc' = [op |-> "seekFixed", len |-> maxSol + 1, x |-> x, w |-> w,
             sel |-> sel, sols |-> <<>>,
             newSol |-> NewSolFixed(x, w),
             changed |-> handleInteraction(AppAt(sel), x, w, 0) # AppAt(sel)]

SeekList(sols, x, w, sel) ==
    calc' = [op |-> "seekList", len |-> Len(sols), x |-> x, w |-> w,
             sel |-> sel, sols |-> sols,
             newSol |-> NewSolList(sols, x, w),
             changed |-> handleInteractionList(AppAt(sel), sols, x, w, 0)
                            # AppAt(sel)]

ProgressFixed(sel) ==
    calc' = [op |-> "percentFixed", len |-> maxSol + 1, sel |-> sel,
             sols |-> <<>>, pct |-> percentageFixed(sel)]

ProgressList(sols, sel) ==
    calc' = [op |-> "percentList", len |-> Len(sols), sel |-> sel,
             sols |-> sols, pct |-> percentageList(sols, sel)]

\* comparisons of a JavaScript number with an integer (false for NaN)
NumLeq(v, k) ==
    \/ v.kind = "num" /\ v.n <= k * v.d
    \/ v.kind = "Infinity" /\ v.n < 0
NumGeq(v, k) ==
    \/ v.kind = "num" /\ v.n >= k * v.d
    \/ v.kind = "Infinity" /\ v.n > 0

\* Math.min(v, k) for an integer k
NumMin(v, k) ==
    IF v.kind = "NaN" THEN NaN ELSE IF NumLeq(v, k) THEN v ELSE Num(k, 1)

\* sols.findIndex(s => s >= sol), 0-based, -1 if there is none
findIndexGeq(sols, sol) ==
    IF \E i \in DOMAIN sols : sols[i] >= sol
    THEN (CHOOSE i \in DOMAIN sols :
             sols[i] >= sol /\ \A j \in DOMAIN sols : sols[j] >= sol => i <= j) - 1
    ELSE -1

\* the marker of one event, fixed-range revision: always rendered, at
\* left = Math.min((eventSol / maxSol) * 100, 95) percent
eventMarkerFixed(event) ==
    LET eventPercentage == JSMul(JSDiv(event.sol, maxSol), 100) IN
    [sol |-> event.sol, shown |-> TRUE, left |-> NumMin(eventPercentage, 95)]

\* the marker of one event, list revision:
\* eventIndex = sols.indexOf(eventSol) || sols.findIndex(s => s >= eventSol)
\* eventPercentage = eventIndex >= 0 ? (eventIndex / (sols.length - 1)) * 100 : -10
\* rendered only if 0 <= eventPercentage <= 100
eventMarkerList(sols, event) ==
    LET io         == indexOf(sols, event.sol)
        eventIndex == IF io # 0 THEN io ELSE findIndexGeq(sols, event.sol)
        eventPercentage ==
            IF eventIndex >= 0
            THEN JSMul(JSDiv(eventIndex, Len(sols) - 1), 100)
            ELSE Num(-10, 1)
    IN  [sol |-> event.sol,
         shown |-> NumGeq(eventPercentage, 0) /\ NumLeq(eventPercentage, 100),
         left |-> eventPercentage]

MarkersFixed(ft) ==
    calc' = [op |-> "markersFixed", ft |-> ft, sols |-> <<>>,
             markers |-> [i \in DOMAIN filteredEvents(ft) |->
                             eventMarkerFixed(filteredEvents(ft)[i])]]

MarkersList(sols, ft) ==
    calc' = [op |-> "markersList", ft |-> ft, sols |-> sols,
             markers |-> [i \in DOMAIN filteredEvents(ft) |->
                             eventMarkerList(sols, filteredEvents(ft)[i])]]

\* Math.max(v, k) for an integer k
NumMax(v, k) ==
    IF v.kind = "NaN" THEN NaN ELSE IF NumGeq(v, k) THEN v ELSE Num(k, 1)

\* Math.min(...) / Math.max(...) of a non-empty set of integers
SetMin(S) == CHOOSE m \in S : \A n \in S : m <= n
SetMax(S) == CHOOSE m \in S : \A n \in S : m >= n

\* the margin 0.002 around the route; coordinates are in units of 0.001 degree
BoundsMargin == 2

NoBounds == [none |-> TRUE, minLat |-> 0, maxLat |-> 0, minLon |-> 0, maxLon |-> 0]

\* mutant: the bounds are the extremes of the route, without the margin
routeBounds_m(route) ==
    IF ~route.present \/ Len(route.pts) = 0 THEN NoBounds
    ELSE LET lats == {route.pts[i].lat : i \in DOMAIN route.pts}
             lons == {route.pts[i].lon : i \in DOMAIN route.pts}
         IN  [none |-> FALSE,
              minLat |-> SetMin(lats), maxLat |-> SetMax(lats),
              minLon |-> SetMin(lons), maxLon |-> SetMax(lons)]

\* routeBounds / getRouteBounds: null for a missing or empty route
routeBounds(route) ==
    IF ~route.present \/ Len(route.pts) = 0 THEN NoBounds
    ELSE LET lats == {route.pts[i].lat : i \in DOMAIN route.pts}
             lons == {route.pts[i].lon : i \in DOMAIN route.pts}
         IN  [none |-> FALSE,
              minLat |-> SetMin(lats) - BoundsMargin,
              maxLat |-> SetMax(lats) + BoundsMargin,
              minLon |-> SetMin(lons) - BoundsMargin,
              maxLon |-> SetMax(lons) + BoundsMargin]

\* mutant: the percentages are not clamped
coordToPercent_m(route, lat, lon) ==
    LET b == routeBounds(route) IN
    IF b.none THEN [x |-> Num(50, 1), y |-> Num(50, 1)]
    ELSE [x |-> JSMul(JSDiv(lon - b.minLon, b.maxLon - b.minLon), 100),
          y |-> JSMul(JSDiv(b.maxLat - lat, b.maxLat - b.minLat), 100)]

\* coordToPercent(lat, lon)
coordToPercent(route, lat, lon) ==
    LET b == routeBounds(route) IN
    IF b.none THEN [x |-> Num(50, 1), y |-> Num(50, 1)]
    ELSE LET x == JSMul(JSDiv(lon - b.minLon, b.maxLon - b.minLon), 100)
             y == JSMul(JSDiv(b.maxLat - lat, b.maxLat - b.minLat), 100)
         IN  [x |-> NumMax(NumMin(x, 100), 0), y |-> NumMax(NumMin(y, 100), 0)]

RoutePoints == [lat : 0..MaxCoord, lon : 0..MaxCoord]
Routes ==
    {[present |-> FALSE, pts |-> <<>>]} \cup
    {[present |-> TRUE, pts |-> pts] :
        pts \in UNION {[1..n -> RoutePoints] : n \in 0..MaxRoute}}
CoordInputs == (0 - BoundsMargin - 1) .. (MaxCoord + BoundsMargin + 1)

Project(route, lat, lon) ==
    calc' = [op |-> "project", route |-> route, lat |-> lat, lon |-> lon,
             pos |-> coordToPercent(route, lat, lon)]

\* the navigation buttons of the timeline: -100, -30, -10, -5, +5, +10, +30, +100
NavSteps == {5, 10, 30, 100}
NavLimit == 1000

\* the argument of onSolChange: Math.max(0, selectedSol - k) or
\* Math.min(1000, selectedSol + k)
navTarget(sel, k, back) ==
    IF back THEN Max(0, sel - k) ELSE Min(NavLimit, sel + k)

\* disabled={selectedSol <= 0} and disabled={selectedSol >= 1000}
navDisabled(sel, back) == IF back THEN sel <= 0 ELSE sel >= NavLimit

\* the sol selected once the fetch started in a has been answered
SelectedAfter(a) ==
    IF a.inflight = {} THEN a.selectedSol
    ELSE ServerSol((CHOOSE r \in a.inflight : r.id = a.nextId).endpoint)

Navigate(sel, k, back) ==
    LET target == navTarget(sel, k, back)
        a == IF navDisabled(sel, back) THEN AppAt(sel)
             ELSE handleSolChange(AppAt(sel), target, Closure(AppAt(sel)), 0)
    IN  calc' = [op |-> "nav", sel |-> sel, k |-> k, back |-> back,
                 disabled |-> navDisabled(sel, back),
                 target |-> target,
                 selects |-> SelectedAfter(a)]

\* a <= b for JavaScript numbers (false when either is NaN)
NumLeqNum(a, b) ==
    \/ a.kind = "num" /\ b.kind = "num" /\ a.n * b.d <= b.n * a.d
    \/ a.kind = "Infinity" /\ b.kind = "Infinity" /\ a.n <= b.n
    \/ a.kind = "Infinity" /\ b.kind = "num" /\ a.n < 0
    \/ a.kind = "num" /\ b.kind = "Infinity" /\ b.n > 0

\* the thumb is drawn at left: pct %. On a track of width pct.d * 100 that is
\* the whole pointer offset pct.n. A left that is not a number is dropped by
\* the browser, and the thumb is then drawn at some offset x0 of a track of
\* width w0 that the code does not determine.
thumbAt(pct, x0, w0) ==
    IF pct.kind = "num" THEN [x |-> pct.n, w |-> pct.d * 100]
    ELSE [x |-> x0, w |-> w0]

\* fixed-range revision: a click where the thumb of sol sel is drawn
RoundTripFixed(sel, x0, w0) ==
    LET at == thumbAt(percentageFixed(sel), x0, w0)
    IN  calc' = [op |-> "tripFixed", sel |-> sel, pct |-> percentageFixed(sel),
                 sols |-> <<>>, newSol |-> NewSolFixed(at.x, at.w)]

\* list revision: a click where the thumb of sol sel of the list is drawn
RoundTripList(sols, sel, x0, w0) ==
    LET at == thumbAt(percentageList(sols, sel), x0, w0)
    IN  calc' = [op |-> "tripList", sel |-> sel, pct |-> percentageList(sols, sel),
                 sols |-> sols, newSol |-> NewSolList(sols, at.x, at.w)]

\* the thumb positions of two sols
OrderThumbFixed(s1, s2) ==
    calc' = [op |-> "orderThumb", s1 |-> s1, s2 |-> s2, sols |-> <<>>,
             p1 |-> percentageFixed(s1), p2 |-> percentageFixed(s2)]

OrderThumbList(sols, s1, s2) ==
    calc' = [op |-> "orderThumb", s1 |-> s1, s2 |-> s2, sols |-> sols,
             p1 |-> percentageList(sols, s1), p2 |-> percentageList(sols, s2)]

\* the sols of two pointer offsets on the same track
OrderSeekFixed(x1, x2, w) ==
    calc' = [op |-> "orderSeek", x1 |-> x1, x2 |-> x2, w |-> w, sols |-> <<>>,
             n1 |-> NewSolFixed(x1, w), n2 |-> NewSolFixed(x2, w)]

OrderSeekList(sols, x1, x2, w) ==
    calc' = [op |-> "orderSeek", x1 |-> x1, x2 |-> x2, w |-> w, sols |-> sols,
             n1 |-> NewSolList(sols, x1, w), n2 |-> NewSolList(sols, x2, w)]

\* a route in the order the rover drove it: the point at index i is that of
\* sol i
WithSols(route) ==
    [route EXCEPT !.pts = [i \in DOMAIN route.pts |->
                              [sol |-> i, lat |-> route.pts[i].lat,
                               lon |-> route.pts[i].lon]]]

\* visibleRoute: the points of the route up to the selected sol
visibleRoute(route, sel) ==
    IF ~route.present THEN <<>>
    ELSE LET upTo(p) == p.sol <= sel IN SelectSeq(route.pts, upTo)

\* mutant: the bounds are those of the visible part of the route
DisplayedPath_m(route, sel) ==
    LET vis == visibleRoute(route, sel)
    IN  [i \in DOMAIN vis |->
            [pt |-> vis[i],
             pos |-> coordToPercent([route EXCEPT !.pts = vis],
                                    vis[i].lat, vis[i].lon)]]

\* the points of the polyline: each visible point with its position
DisplayedPath(route, sel) ==
    LET vis == visibleRoute(route, sel)
    IN  [i \in DOMAIN vis |->
            [pt |-> vis[i],
             pos |-> coordToPercent(route, vis[i].lat, vis[i].lon)]]

\* the map drawn for the same payload at two selected sols s1 <= s2
Display(route, s1, s2) ==
    calc' = [op |-> "display", route |-> route, s1 |-> s1, s2 |-> s2,
             path1 |-> DisplayedPath(route, s1),
             path2 |-> DisplayedPath(route, s2)]

\* the cache key and the endpoint that fetchRoverData(a) and fetchRoverData(b)
\* use, next to those of a fetch without a sol
RequestsOf(a, b) ==
    calc' = [op |-> "requests", a |-> a, b |-> b,
             keyA |-> cacheKey(a), keyB |-> cacheKey(b),
             endpointA |-> endpoint(a), endpointB |-> endpoint(b),
             keyNone |-> cacheKey(Null), endpointNone |-> endpoint(Null)]

\* list revision, the - button of the map: Math.max(prev * 0.8, 0.5)
ZoomOutList(prev) ==
    LET z == Ratio(prev.n * 4, prev.d * 5) IN
    IF RatioLeq(Ratio(1, 2), z) THEN z ELSE Ratio(1, 2)

\* zoom levels within k presses of the initial level, list revision
RECURSIVE ZoomReachList(_)
ZoomReachList(k) ==
    IF k = 0 THEN {InitialZoom}
    ELSE LET R == ZoomReachList(k - 1) IN
         R \cup {ZoomIn(z) : z \in R} \cup {ZoomOutList(z) : z \in R}

ZoomPresses == {"in", "out", "reset"}

\* a zoom button of the map pressed at level z
ZoomPress(z, name) ==
    calc' = [op |-> "zoom", from |-> z, press |-> name,
             level |-> CASE name = "in" -> ZoomIn(z)
                         [] name = "out" -> ZoomOut(z)
                         [] name = "reset" -> InitialZoom]

\* list revision: the + or - button of the map pressed at level z
ZoomPressList(z, name) ==
    calc' = [op |-> "zoomList", from |-> z, press |-> name,
             level |-> IF name = "in" THEN ZoomIn(z) ELSE ZoomOutList(z)]

\* handleSolChange(18) at sol 1000 and level z, with sol 18 remembered at
\* level saved (has) or not remembered
ZoomSolChange(z, saved, has) ==
    LET a0 == [AppAt(LatestSol) EXCEPT
                  !.mapZoomLevel = z,
                  !.mapZoomMemory = IF has THEN SetZoom(<<>>, 18, saved)
                                    ELSE <<>>]
        a  == handleSolChange(a0, 18, Closure(a0), 0)
    IN  calc' = [op |-> "zoomChange", from |-> z, saved |-> saved, has |-> has,
                 level |-> a.mapZoomLevel, memory |-> a.mapZoomMemory]

CalcNext ==
    /\ calc = NoCalc
    /\ UNCHANGED <<appVars, envVars, tlVars, ghostVars, capVars, noteVars>>
    /\ \/ \E x \in CalcOffsets, w \in CalcWidths, sel \in CalcSols :
             SeekFixed(x, w, sel)
       \/ \E sols \in CalcLists, x \in CalcOffsets, w \in CalcWidths,
             sel \in CalcSols : SeekList(sols, x, w, sel)
       \/ \E sel \in CalcSols : ProgressFixed(sel)
       \/ \E sols \in CalcLists, sel \in CalcSols : ProgressList(sols, sel)
       \/ \E ft \in FilterTypes : MarkersFixed(ft)
       \/ \E sols \in CalcLists, ft \in FilterTypes : MarkersList(sols, ft)
       \/ \E route \in Routes, lat \in CoordInputs, lon \in CoordInputs :
             Project(route, lat, lon)
       \/ \E sel \in 0..maxSol, k \in NavSteps, back \in BOOLEAN :
             Navigate(sel, k, back)
       \/ \E a \in 0..maxSol, b \in 0..maxSol :
             a # b /\ (b = a + 1 \/ b \in CalcSols) /\ RequestsOf(a, b)
       \/ \E route \in Routes, s1 \in 0..MaxRoute, s2 \in 0..MaxRoute :
             s1 <= s2 /\ Display(WithSols(route), s1, s2)
       \/ \E sel \in 0..maxSol, x0 \in CalcOffsets, w0 \in CalcWidths :
             RoundTripFixed(sel, x0, w0)
       \/ \E sols \in CalcLists, x0 \in CalcOffsets, w0 \in CalcWidths :
             \E sel \in Range(sols) : RoundTripList(sols, sel, x0, w0)
       \/ \E s1 \in 0..maxSol, s2 \in 0..maxSol :
             s1 < s2 /\ (s2 = s1 + 1 \/ s2 \in CalcSols) /\ OrderThumbFixed(s1, s2)
       \/ \E sols \in CalcLists : \E s1 \in Range(sols), s2 \in Range(sols) :
             s1 < s2 /\ OrderThumbList(sols, s1, s2)
       \/ \E x1 \in CalcOffsets, x2 \in CalcOffsets, w \in CalcWidths :
             x1 <= x2 /\ OrderSeekFixed(x1, x2, w)
       \/ \E sols \in CalcLists, x1 \in CalcOffsets, x2 \in CalcOffsets,
                w \in CalcWidths :
             sols # <<>> /\ x1 <= x2 /\ OrderSeekList(sols, x1, x2, w)
       \/ \E z \in ZoomReach(MaxZoomPresses), name \in ZoomPresses :
             ZoomPress(z, name)
       \/ \E z \in ZoomReachList(MaxZoomPresses), name \in {"in", "out"} :
             ZoomPressList(z, name)
       \/ \E z \in ZoomReach(MaxZoomPresses), has \in BOOLEAN :
             \E saved \in ZoomReach(MaxZoomPresses) :
                (has \/ saved = InitialZoom) /\ ZoomSolChange(z, saved, has)

SpecCalc == Init /\ [][CalcNext]_vars

----------------------------------------------------------------------------
(* Claims *)

\* the step just taken is operation op (Tick leaves `last` alone)
Did(op) == last'.op = op /\ now' = now

\* the keys a fetch can use in the model
KeyUniverse == {cacheKey(sol) : sol \in {Null, 0, 1, 18, 500, 750, 1000}}

\* C1: in every reachable state the selected sol is header.sol of the payload
\* held, and both are null exactly until the first successful load.
C1_SelectedSolMatchesPayload ==
    /\ selectedSol = roverData.sol
    /\ (roverData = NoData) <=> (selectedSol = Null)

\* C1 witness: a sol change to a sol other than the latest has been applied
C1_Witness ==
    /\ last.op = "resolve" /\ roverData # NoData
    /\ selectedSol # LatestSol /\ selectedSol # Null

\* C2: a selection of a sol whose key has a pinned payload (same cache window,
\* no forced refresh since the payload was first applied) issues no network
\* request and applies the pinned payload again.
C2_RoundTrip ==
    [][\A k \in DOMAIN pinned :
          ( /\ now' = now /\ last'.op \in SelectOps /\ last'.called
            /\ cacheKey(last'.arg) = k /\ PinValid(pinned, k, now) )
          => (nextId' = nextId /\ roverData' = pinned[k].data)]_vars

\* C3: isStale(key) is true for a key never set, false while
\* now - t <= 300000 after the last set(key) at time t, and true afterwards.
C3_Staleness ==
    \A k \in KeyUniverse \cup DOMAIN cache :
        DataCache_isStale(cache, k, now)
            <=> (k \notin DOMAIN setAt \/ now - setAt[k] > 300000)

\* C3 witness: an entry was set again after its window had elapsed (the window
\* restarted) and, in the same state, another entry's window has elapsed
C3_Witness ==
    /\ \E k \in DOMAIN setAt :
           now - setAt[k] > 300000 /\ DataCache_isStale(cache, k, now)
    /\ \E k \in DOMAIN setAt :
           /\ setAt[k] > 300000
           /\ ~DataCache_isStale(cache, k, now)

\* C4: when a fetch fails, error is the message, loading is false, and the
\* payload, the selected sol and the cache are what they were when that fetch
\* started.
C4_FailureRestores ==
    [][\A r \in inflight :
          (Did("reject") /\ last'.arg = r.id)
          => /\ error' = LinkLost
             /\ ~loading'
             /\ roverData' = r.before.roverData
             /\ selectedSol' = r.before.selectedSol
             /\ cache' = r.before.cache]_vars

\* C5: a mouse-down on the track leaves no auto-play timer pending, and the
\* auto-play timer only ever fires inside a run that was started and has not
\* been stopped since.
C5_DragCancelsAutoPlay ==
    [][ /\ Did("mouseDown") => (~autoPlayRef' /\ ~isAutoPlay')
        /\ (Did("playNext") \/ Did("playEnd")) => run.state = "running" ]_vars

\* C5 witness: a running auto-play run was stopped by a mouse-down
C5_Witness ==
    /\ last.op = "mouseDown" /\ run.state = "stopped" /\ ~autoPlayRef

\* C6: an auto-play run the user did not touch has, when it is over, requested
\* the sol of every event to play, one per step, in catalog order.
C6_AutoPlayPlaysAll ==
    (run.state \in {"completed", "unmounted"} /\ ~run.touched)
        => run.stepped = run.events

NonDecreasing(s) == \A i, j \in DOMAIN s : i <= j => s[i] <= s[j]

\* C7: the sols an auto-play run requests start with 1 and never decrease, and
\* a completed run leaves sol 1000 selected.
C7_AutoPlayFromOneToCurrent ==
    /\ run.state # "idle" =>
          /\ NonDecreasing(run.requested)
          /\ run.requested # <<>> => run.requested[1] = 1
    /\ (run.state = "completed" /\ inflight = {} /\ Shown(App))
          => selectedSol = 1000

\* C8: a click on an event marker whose sol differs from the selected sol that
\* issues a request issues it for the literal eventSol.
C8_JumpRequestsEventSol ==
    (last.op = "jump" /\ last.req) =>
        \A r \in inflight :
            r.id = nextId => (r.endpoint = last.arg /\ r.key = last.arg)

\* C9: seek yields a sol of the domain for every pointer offset (nothing for
\* an empty sols list) and changes nothing when that sol is the selected one.
C9_SeekInDomain ==
    /\ calc.op = "seekFixed" =>
          /\ calc.newSol \in 0..maxSol
          /\ calc.newSol = calc.sel => ~calc.changed
    /\ calc.op = "seekList" =>
          IF calc.sols = <<>>
          THEN calc.newSol = NoneInt /\ ~calc.changed
          ELSE /\ calc.newSol \in Range(calc.sols)
               /\ calc.newSol = calc.sel => ~calc.changed

\* C9 witness: a pointer offset right of the track maps to the selected sol
C9_Witness ==
    /\ calc.op = "seekFixed" /\ calc.x > calc.w
    /\ calc.newSol = maxSol /\ calc.sel = maxSol /\ ~calc.changed

\* C10: the progress percentage is a defined number, and 0 when the sol domain
\* is empty or has one element.
C10_ProgressDefined ==
    calc.op \in {"percentFixed", "percentList"} =>
        /\ calc.pct.kind = "num"
        /\ calc.len <= 1 => IsZero(calc.pct)


\* C11: every event of the filtered catalog has a visible marker, whatever the
\* sols list of the payload, placed at min(sol / 1000 * 100, 95) percent and so
\* never beyond 95%; under the 'all' filter the 12 catalog events are visible.
C11_AllEventsShown ==
    calc.op \in {"markersFixed", "markersList"} =>
        /\ Len(calc.markers) = Len(filteredEvents(calc.ft))
        /\ \A i \in DOMAIN calc.markers :
              /\ calc.markers[i].sol = filteredEvents(calc.ft)[i].sol
              /\ calc.markers[i].shown
              /\ calc.markers[i].left
                    = NumMin(Num(calc.markers[i].sol * 100, maxSol), 95)
              /\ NumLeq(calc.markers[i].left, 95)
        /\ calc.ft = "all" =>
              Cardinality({i \in DOMAIN calc.markers : calc.markers[i].shown}) = 12


InPercentRange(v) == NumGeq(v, 0) /\ NumLeq(v, 100)

\* C12: the projector returns x and y in [0, 100] for every non-empty route and
\* every (lat, lon), and exactly (50, 50) for an empty or missing route.
C12_ProjectorInRange ==
    calc.op = "project" =>
        IF calc.route.present /\ Len(calc.route.pts) > 0
        THEN InPercentRange(calc.pos.x) /\ InPercentRange(calc.pos.y)
        ELSE calc.pos = [x |-> Num(50, 1), y |-> Num(50, 1)]

\* C12 witness: a point east and north of the padded bounds of a one-point
\* route is projected onto the edge (100, 0)
C12_Witness ==
    /\ calc.op = "project"
    /\ calc.route.present /\ Len(calc.route.pts) = 1
    /\ calc.lon > calc.route.pts[1].lon + BoundsMargin
    /\ calc.lat > calc.route.pts[1].lat + BoundsMargin
    /\ calc.pos = [x |-> Num(100, 1), y |-> Num(0, 1)]


\* C13: a tick of the live timer issues a request for the selected sol, forced,
\* whether or not the cache holds a fresh entry for it; the response to a forced
\* request overwrites the entry of that sol with the new payload and time.
C13_LiveTickForcesRefresh ==
    [][ /\ Did("live") =>
            \E r \in inflight' \ inflight :
                /\ r.id = nextId' /\ nextId' = nextId + 1
                /\ r.forced /\ r.sol = selectedSol
                /\ r.endpoint = endpoint(selectedSol)
                /\ selectedSol # Null =>
                      (r.endpoint = selectedSol /\ r.key = selectedSol)
        /\ Did("resolve") =>
            \A r \in inflight \ inflight' :
                r.forced =>
                    /\ Has(cache', r.key)
                    /\ cache'[r.key] = [data |-> roverData', timestamp |-> now]
                    /\ roverData'.sol = ServerSol(r.endpoint) /\ roverData'.ver = r.id
                    /\ r.sol # Null => r.key = r.sol
      ]_vars

\* C13 witness: the live timer has just issued a request although the cache
\* holds a fresh entry for the selected sol
C13_Witness ==
    /\ last.op = "live" /\ last.req
    /\ selectedSol # Null
    /\ Has(cache, selectedSol)
    /\ ~DataCache_isStale(cache, selectedSol, now)
    /\ \E r \in inflight : r.id = nextId /\ r.forced /\ r.key = selectedSol


\* C14: while the error screen is shown, no step other than a press of the
\* retry button issues a request or leaves the error screen.
C14_NoAutomaticRetry ==
    [][ (error # NoError /\ ~loading /\ ~Did("retry")) =>
            (nextId' = nextId /\ error' # NoError /\ ~loading') ]_vars


\* C15: every 2xx answer, whether or not its errors list is empty, is handled
\* as a success: its payload is applied and cached, the error is cleared and
\* the dashboard is rendered.
C15_ErrorsPayloadIsSuccess ==
    [][ Did("resolve") =>
            \A r \in inflight \ inflight' :
                /\ \E e \in BOOLEAN : roverData' = ResponseData(r, e)
                /\ selectedSol' = roverData'.sol
                /\ Has(cache', r.key) /\ cache'[r.key].data = roverData'
                /\ error' = NoError /\ ~loading'
      ]_vars

\* C15 witness: the dashboard shows a payload whose errors list is non-empty,
\* just received and cached
C15_Witness ==
    /\ last.op = "resolve" /\ roverData.errors
    /\ Shown(App)
    /\ \E k \in DOMAIN cache : cache[k] = [data |-> roverData, timestamp |-> now]


\* C16: when the selected sol becomes a sol the user left earlier, the zoom
\* level is the level at which the user left it.
C16_ZoomRememberedPerSol ==
    [][ (selectedSol' # selectedSol /\ selectedSol' \in DOMAIN leftZoom) =>
            mapZoomLevel' = leftZoom[selectedSol'] ]_vars


\* C17: for every selected sol s in 0..1000, the button -k selects max(0, s - k)
\* and the button +k selects min(1000, s + k); the backward buttons are disabled
\* exactly at s <= 0 and the forward buttons exactly at s >= 1000.
C17_NavButtonsClamp ==
    calc.op = "nav" =>
        /\ calc.disabled <=> (IF calc.back THEN calc.sel <= 0 ELSE calc.sel >= 1000)
        /\ ~calc.disabled =>
              calc.selects = (IF calc.back THEN Max(0, calc.sel - calc.k)
                                           ELSE Min(1000, calc.sel + calc.k))


\* C18: seek and thumb position are inverse on the domain: a click at the
\* track position where the thumb of a sol S of the domain is drawn yields S
\* again, in the fixed-range revision and in the list revision.
C18_SeekInvertsThumb ==
    calc.op \in {"tripFixed", "tripList"} => calc.newSol = calc.sel

\* C18 witness: the round trip of the middle sol of a three-element sols list,
\* whose thumb is drawn at 50% of the track
C18_Witness ==
    /\ calc.op = "tripList" /\ Len(calc.sols) = 3 /\ calc.sel = calc.sols[2]
    /\ calc.pct = Num(100, 2) /\ calc.newSol = calc.sel

\* C19: the thumb position is monotone in the sol (S1 < S2 of the domain gives
\* position(S1) <= position(S2)) and seek is monotone in the pointer offset
\* (x1 <= x2 gives seek(x1) <= seek(x2)), in both revisions.
C19_Monotone ==
    /\ calc.op = "orderThumb" => NumLeqNum(calc.p1, calc.p2)
    /\ calc.op = "orderSeek" => calc.n1 <= calc.n2

\* C19 witness: two offsets on one track that seek to different sols of a list,
\* the left one left of the track
C19_Witness ==
    /\ calc.op = "orderSeek" /\ calc.sols # <<>>
    /\ calc.x1 < 0 /\ calc.x1 < calc.x2 /\ calc.n1 < calc.n2


\* C20: an in-flight request is never cancelled: it stays in flight until its
\* own response arrives, and a successful response is applied on arrival
\* (selected sol and payload become those of the response) whether or not a
\* later request has been issued. Hence a response to an earlier-issued request
\* can be applied last, leaving the selected sol different from the sol
\* requested most recently.
C20_NoCancellation ==
    [][\A r \in inflight :
          r \notin inflight' =>
             /\ now' = now /\ last'.op \in {"resolve", "reject"}
             /\ last'.arg = r.id
             /\ last'.op = "resolve" =>
                   /\ selectedSol' = ServerSol(r.endpoint)
                   /\ roverData'.sol = ServerSol(r.endpoint)
                   /\ roverData'.ver = r.id]_vars

\* C20 witness: the response applied last answers an earlier-issued request
\* than one whose response is already in the cache, and the selected sol is not
\* the sol of that later request
C20_Witness ==
    /\ last.op = "resolve" /\ inflight = {}
    /\ roverData.ver = last.arg /\ selectedSol = roverData.sol
    /\ \E k \in DOMAIN cache :
          /\ cache[k].data.ver > roverData.ver
          /\ cache[k].data.ver = nextId
          /\ cache[k].data.sol # selectedSol


\* the state of the fetch workflow that App renders
Workflow ==
    IF ~appMounted THEN "Idle"
    ELSE IF loading THEN "Loading"
    ELSE IF error # NoError THEN "Error"
    ELSE "Ready"

WorkflowTransitions ==
    { <<"Idle", "Loading">>, <<"Loading", "Ready">>, <<"Loading", "Error">>,
      <<"Ready", "Loading">>, <<"Error", "Loading">> }

\* C21: the fetch workflow only takes the transitions Idle->Loading,
\* Loading->Ready, Loading->Error, Ready->Loading and Error->Loading, and the
\* held payload is replaced and the error message is set only by a step that
\* leaves Loading, never by a step taken in Ready or in Error.
C21_WorkflowTransitions ==
    [][ /\ Workflow' # Workflow => <<Workflow, Workflow'>> \in WorkflowTransitions
        /\ (roverData' # roverData \/ (error' # error /\ error' # NoError))
              => (Workflow = "Loading" /\ Workflow' # "Loading") ]_vars


\* C22: at any time at most one auto-play timer and at most one live-refresh
\* timer are pending; the auto-play timer pending is the one autoPlayRef holds,
\* and a step of auto-play or a re-run of the live-mode effect replaces the
\* pending timer, never adds a second one.
C22_AtMostOneTimer ==
    /\ autoPlayTimers <= 1
    /\ liveIntervals <= 1
    /\ autoPlayTimers = (IF autoPlayRef THEN 1 ELSE 0)

\* C22 witness: an auto-play step has fired and scheduled the next one while
\* the live-refresh interval is pending
C22_Witness ==
    /\ last.op = "playNext" /\ isAutoPlay
    /\ autoPlayTimers = 1 /\ liveIntervals = 1


\* the handler of a timeline mouse-down is between handleInteraction and
\* stopAutoPlay
InMouseDown == calc # NoCalc /\ calc.op = "mouseDown"

\* C23: on a timeline mouse-down during auto-play the pending auto-play timer
\* is cleared first and only then is the sol change for the pointer position
\* made: when the handler has made the sol change, no timer is pending.
C23_CancelBeforeSeek ==
    InMouseDown => autoPlayTimers = 0

\* C23 amended: the handler makes the sol change for the pointer position
\* first and clears the pending auto-play timer next, before anything else
\* runs: its next step leaves no timer pending and isAutoPlay false.
C23_CancelAfterSeek ==
    [][ InMouseDown =>
          /\ ~InMouseDown'
          /\ autoPlayTimers' = 0 /\ ~autoPlayRef' /\ ~isAutoPlay' ]_vars

\* C23 witness: a mouse-down during auto-play has cancelled the run, its seek
\* served from the cache so that the timeline stayed mounted
C23_Witness ==
    /\ last.op = "mouseDown" /\ last.called /\ ~last.req
    /\ run.state = "stopped" /\ TimelineMounted
    /\ autoPlayTimers = 0 /\ ~isAutoPlay /\ isDragging


C25_LiveModeTimer ==
    [][ /\ ~isLiveMode' => liveIntervals' = 0
        /\ ~isLiveMode => \A r \in inflight' \ inflight : ~r.forced
        /\ Did("toggleLive") =>
              /\ isLiveMode' # isLiveMode
              /\ liveIntervals' = (IF isLiveMode' THEN 1 ELSE 0) ]_vars

\* C25 witness: live mode has just been switched off on the dashboard, and the
\* interval that was pending is cleared
C25_Witness ==
    /\ last.op = "toggleLive" /\ ~isLiveMode
    /\ liveIntervals = 0 /\ liveSince = Null
    /\ selectedSol # Null


\* v is the number k
NumIs(v, k) == v.kind = "num" /\ v.n = k * v.d

\* the projection computed is that of a point of a non-empty route
ProjectsRoutePoint ==
    /\ calc.op = "project" /\ calc.route.present
    /\ \E i \in DOMAIN calc.route.pts :
          calc.route.pts[i] = [lat |-> calc.lat, lon |-> calc.lon]

SameLat == \A i, j \in DOMAIN calc.route.pts :
              calc.route.pts[i].lat = calc.route.pts[j].lat
SameLon == \A i, j \in DOMAIN calc.route.pts :
              calc.route.pts[i].lon = calc.route.pts[j].lon

\* C26: when the route's minimum equals its maximum on either axis (a
\* single-point route included), the projector returns the centre (50, 50) for
\* every route point, and never NaN.
C26_DegenerateCentre ==
    (ProjectsRoutePoint /\ (SameLat \/ SameLon)) =>
        NumIs(calc.pos.x, 50) /\ NumIs(calc.pos.y, 50)

\* C26 amended: the projector never yields NaN for a non-empty route; on an
\* axis where the route's minimum equals its maximum every route point is
\* placed at 50, while the other axis is projected as usual.
C26_DegenerateAxis ==
    (calc.op = "project" /\ calc.route.present /\ Len(calc.route.pts) > 0) =>
        /\ calc.pos.x.kind = "num" /\ calc.pos.y.kind = "num"
        /\ ProjectsRoutePoint =>
              /\ SameLat => NumIs(calc.pos.y, 50)
              /\ SameLon => NumIs(calc.pos.x, 50)

\* C26 witness: a point of a two-point route along one latitude is placed at
\* 50 vertically and off the centre horizontally
C26_Witness ==
    /\ ProjectsRoutePoint /\ Len(calc.route.pts) = 2
    /\ SameLat /\ ~SameLon
    /\ NumIs(calc.pos.y, 50) /\ ~NumIs(calc.pos.x, 50)


\* the route points of a displayed path
PathPoints(path) == [i \in DOMAIN path |-> path[i].pt]

C28_DragListeners ==
    /\ dragListeners = (IF isDragging THEN 1 ELSE 0)
    /\ isDragging => TimelineMounted

\* C28 witness: a mouse-down started a drag and a fetch; the loading screen
\* unmounted the timeline in mid-drag and no listener is left
C28_Witness ==
    /\ last.op = "mouseDown" /\ last.req /\ loading
    /\ ~isDragging /\ dragListeners = 0


\* C29: whenever at least one network request is outstanding the loading flag
\* is true: the dashboard is never shown as Ready or Error while a response is
\* awaited.
C29_LoadingWhileOutstanding ==
    inflight # {} => loading

\* C30: two different sols of 0..1000 never share a cache key or an endpoint,
\* and neither uses the key or the endpoint of a fetch without a sol.
C30_DistinctRequests ==
    calc.op = "requests" =>
        /\ calc.keyA # calc.keyB
        /\ calc.endpointA # calc.endpointB
        /\ calc.keyA # calc.keyNone /\ calc.keyB # calc.keyNone
        /\ calc.endpointA # calc.endpointNone
        /\ calc.endpointB # calc.endpointNone


\* C31: a sol change whose fetch fails leaves the map zoom level unchanged:
\* after the failure the zoom level is the one in effect when the sol change
\* was requested.
C31_FailedChangeKeepsZoom ==
    [][ \A r \in inflight :
          ( /\ Did("reject") /\ r \notin inflight' /\ r.sol # Null
            /\ selectedSol \in DOMAIN leftZoom )
          => mapZoomLevel' = leftZoom[selectedSol] ]_vars


\* C32: the retry action of the error screen always fetches the 'latest'
\* payload, with no sol argument and no forced refresh, whichever request
\* failed; while the 'latest' cache entry is fresh it is answered from the
\* cache without a network request, otherwise it issues one request.
C32_RetryFetchesLatest ==
    [][ Did("retry") =>
          LET fresh == Has(cache, LatestKey)
                          /\ ~DataCache_isStale(cache, LatestKey, now)
              new == inflight' \ inflight
          IN  /\ \A r \in new : /\ r.sol = Null /\ r.key = LatestKey
                                /\ r.endpoint = LatestPoint /\ ~r.forced
              /\ fresh => /\ new = {} /\ nextId' = nextId
                          /\ roverData' = DataCache_get(cache, LatestKey).data
                          /\ selectedSol' = LatestSol
                          /\ error' = NoError /\ ~loading'
              /\ ~fresh => Cardinality(new) = 1 /\ loading' ]_vars

\* a failed request for sol 18 has been retried and answered from the cache
C32_Witness ==
    /\ last.op = "retry" /\ ~last.req
    /\ nextId >= 2 /\ ~Has(cache, 18)
    /\ error = NoError /\ ~loading /\ selectedSol = LatestSol


\* C33: an auto-play run is fixed when it starts.  Every step of the chain
\* asks for the next sol of the list filtered when the run started (sol 1000
\* once that list is exhausted), its sol-change callback fetches exactly when
\* that sol differs from the sol that was selected at the start, and the next
\* timer is set with 2000 ms divided by the speed selected at the start,
\* whatever the filter, the speed and the selected sol are by then.
C33_RunFixedAtStart ==
    [][ (run.state = "running" /\ (Did("playNext") \/ Did("playEnd"))) =>
          LET more == currentIndex < Len(run.events) IN
          /\ Did("playNext") <=> more
          /\ last'.arg = IF more THEN run.events[currentIndex + 1] ELSE 1000
          /\ last'.called <=> last'.arg # run.sol
          /\ (more /\ autoPlayRef') => timerDelay' = Delay(2000, run.speed)
      ]_vars

\* a step of the chain has run after the filter, the speed and the selected
\* sol have all moved away from what they were when the run started
C33_Witness ==
    /\ last.op = "playNext" /\ run.state = "running" /\ autoPlayRef
    /\ EventsToPlay(filterType) # run.events
    /\ playbackSpeed # run.speed
    /\ selectedSol # run.sol
    /\ timerDelay = Delay(2000, run.speed)


\* C34: in a mounted timeline, after every completed event handler or timer
\* callback, isAutoPlay is true exactly when autoPlayRef holds a timer, and
\* that timer is the only auto-play timer pending; a timeline that has just
\* been mounted has isAutoPlay false and no pending timer.
C34_AutoPlayFlagMatchesTimer ==
    [][ /\ TimelineMounted' =>
              /\ isAutoPlay' <=> autoPlayRef'
              /\ autoPlayTimers' = IF isAutoPlay' THEN 1 ELSE 0
        /\ (~TimelineMounted /\ TimelineMounted') =>
              /\ ~isAutoPlay' /\ ~autoPlayRef' /\ autoPlayTimers' = 0 ]_vars

\* the timer callback has completed in a timeline that is still mounted: the
\* flag is set and the next timer is pending
C34_Witness ==
    /\ last.op = "playNext" /\ TimelineMounted
    /\ isAutoPlay /\ autoPlayRef /\ autoPlayTimers = 1


\* C35: for every selected sol that a load, a seek, a navigation button or a
\* refresh can select, the percentage at which the thumb and the progress bar
\* are drawn lies in [0, 100]: selectedSol / 1000 * 100 in the fixed-range
\* revision, indexOf(selectedSol) / (length - 1) * 100 in the list revision
\* for a selected sol of the payload's list.
C35_ThumbInRange ==
    /\ (calc.op = "percentFixed" /\ calc.sel \in 0..maxSol)
          => InPercentRange(calc.pct)
    /\ calc.op = "seekFixed"
          => InPercentRange(percentageFixed(ServerSol(endpoint(calc.newSol))))
    /\ calc.op = "nav" => InPercentRange(percentageFixed(calc.selects))
    /\ (calc.op = "percentList" /\ calc.sel \in Range(calc.sols))
          => InPercentRange(calc.pct)


InZoomRange(z) == RatioLeq(Ratio(1, 2), z) /\ RatioLeq(z, Ratio(3, 1))

\* C36: after any sequence of zoom-in, zoom-out, reset and sol changes,
\* restores from the zoom memory included, the zoom level of the map lies in
\* [0.5, 3], and so does every level stored in the zoom memory.
C36_ZoomInRange ==
    /\ calc.op \in {"zoom", "zoomList"} => InZoomRange(calc.level)
    /\ calc.op = "zoomChange" =>
          /\ InZoomRange(calc.level)
          /\ \A sol \in DOMAIN calc.memory : InZoomRange(calc.memory[sol])

\* the seventh zoom-in in a row (1.2^7 > 3) is capped at 3
C36_Witness ==
    /\ calc.op = "zoom" /\ calc.press = "in"
    /\ calc.from = Ratio(46656, 15625)
    /\ calc.level = Ratio(3, 1)


\* C37: the notification list never holds more than 3 entries.  A live tick
\* that adds a discovery keeps the 2 most recent earlier entries, in order,
\* and puts the new one last; an entry is added by a live tick only, and only
\* when the selected sol is neither null nor 0; dismissing index i removes
\* exactly that entry and keeps the order of the others.
C37_NotificationsBounded ==
    [][ LET old == notifications
            new == notifications'
        IN  /\ Len(new) <= 3
            /\ (new # old /\ ~Did("dismiss")) =>
                  /\ Did("live") /\ selectedSol # Null /\ selectedSol # 0
                  /\ Len(new) = Min(2, Len(old)) + 1
                  /\ new[Len(new)].sol = selectedSol
                  /\ new[Len(new)] \notin Range(old)
                  /\ \A j \in 1..(Len(new) - 1) :
                        new[j] = old[Len(old) - (Len(new) - 1) + j]
            /\ Did("dismiss") =>
                  /\ last'.arg \in 0..(Len(old) - 1)
                  /\ Len(new) = Len(old) - 1
                  /\ \A j \in 1..Len(new) :
                        new[j] = IF j - 1 < last'.arg THEN old[j] ELSE old[j + 1]
      ]_vars

\* the fourth discovery has pushed the first one out of a full list
C37_Witness ==
    /\ last.op = "live" /\ Len(notifications) = 3
    /\ notifications[1].n = 2 /\ notifications[3].n = 4

====
